---- MODULE Spec2Model ----
(***************************************************************************)
(* Model of the ClockCaster ingestion pipeline (src/cc_parse.py): the      *)
(* identity resolvers (get_or_create and upsert), the synchronization      *)
(* pass process_data and the poll loop poll_and_process, over a relational  *)
(* store of six tables; and of the loop over the race headings of the       *)
(* HTML extraction (src/cc_scrape.py).                                      *)
(*                                                                          *)
(* Representation of Python values:                                         *)
(*   str   a sequence of one-character strings (<<>> is "")                 *)
(*   None  the one-element sequence None                                    *)
(*   int   MkInt(n)                                                         *)
(*   dict  a function from key names to values; a key that is missing from  *)
(*         the dict is missing from the DOMAIN                              *)
(*   list  a sequence                                                       *)
(***************************************************************************)
EXTENDS Integers, Sequences, FiniteSets, TLC

VARIABLES
    db,             \* the store: table name -> sequence of rows, in insertion order
    call,           \* the operation that ran last, with its arguments
    ret,            \* what that operation returned (an id, or None)
    ops,            \* the store operations that operation issued, in order
    payload,        \* the payload of the latest synchronization pass / fetch
    outcome,        \* how the latest process_data call ended
    npass,          \* number of process_data calls so far
    last_data_hash, \* poll_and_process: the baseline hash
    snapshot,       \* poll_and_process: content of payload.json
    nsnap,          \* number of snapshot writes so far
    tick,           \* poll_and_process: what the latest loop iteration did
    scrape          \* cc_scrape.py: the headings, the position in them, the schedule so far

vars == <<db, call, ret, ops, payload, outcome, npass, last_data_hash, snapshot, nsnap, tick,
          scrape>>

----------------------------------------------------------------------------
(* Python values *)

None == <<"<None>">>

MkInt(n) == <<"<int>", n>>

IsInt(v) == Len(v) = 2 /\ v[1] = "<int>"

\* Python truthiness of a scalar: None, "" and 0 are false
Falsy(v) == v = None \/ v = <<>> \/ v = MkInt(0)

\* dict.get(k)
Get(d, k) == IF k \in DOMAIN d THEN d[k] ELSE None

\* dict.get(k, dflt)
GetDefault(d, k, dflt) == IF k \in DOMAIN d THEN d[k] ELSE dflt

\* the dict `old` overwritten by the items of `new`
Merge(new, old) ==
    [k \in (DOMAIN new) \cup (DOMAIN old) |-> IF k \in DOMAIN new THEN new[k] ELSE old[k]]

\* del d[k] when k in d
Without(d, k) == [j \in (DOMAIN d) \ {k} |-> d[j]]

\* {k: v for k, v in d.items() if v is not None}
DropNone(d) == [k \in {j \in DOMAIN d : d[j] # None} |-> d[k]]

----------------------------------------------------------------------------
(* Strings *)

Digits == <<"0", "1", "2", "3", "4", "5", "6", "7", "8", "9">>

UpperCase == <<"A", "B", "C", "D", "E", "F", "G", "H", "I", "J", "K", "L", "M",
               "N", "O", "P", "Q", "R", "S", "T", "U", "V", "W", "X", "Y", "Z">>

LowerCase == <<"a", "b", "c", "d", "e", "f", "g", "h", "i", "j", "k", "l", "m",
               "n", "o", "p", "q", "r", "s", "t", "u", "v", "w", "x", "y", "z">>

\* the position of c in seq, 0 when it is not there
IndexIn(seq, c) == IF c \in {seq[i] : i \in DOMAIN seq}
                   THEN CHOOSE i \in DOMAIN seq : seq[i] = c
                   ELSE 0

ToLower == [i \in DOMAIN UpperCase |-> LowerCase[i]]

UpperSet == {UpperCase[i] : i \in DOMAIN UpperCase}

DigitSet == {Digits[i] : i \in DOMAIN Digits}

LowerChar(c) == IF c \in UpperSet THEN ToLower[IndexIn(UpperCase, c)] ELSE c

\* str.lower()
Lower(s) == [i \in 1..Len(s) |-> LowerChar(s[i])]

\* str.replace(a, b) for one-character a and b
Replace(s, a, b) == [i \in 1..Len(s) |-> IF s[i] = a THEN b ELSE s[i]]

\* c in s
Contains(s, c) == \E i \in DOMAIN s : s[i] = c

IsDigit(c) == c \in DigitSet

DigitVal(c) == IndexIn(Digits, c) - 1

AllDigits(s) == Len(s) > 0 /\ \A i \in DOMAIN s : IsDigit(s[i])

RECURSIVE NatOf(_)
NatOf(s) == IF s = <<>> THEN 0
            ELSE 10 * NatOf(SubSeq(s, 1, Len(s) - 1)) + DigitVal(s[Len(s)])

RECURSIVE NatStr(_)
NatStr(n) == IF n < 10 THEN <<Digits[n + 1]>>
             ELSE NatStr(n \div 10) \o <<Digits[(n % 10) + 1]>>

\* s.split(c): the list of the pieces of s between the occurrences of c
RECURSIVE Split(_, _)
Split(s, c) ==
    IF ~Contains(s, c) THEN <<s>>
    ELSE LET i == CHOOSE j \in DOMAIN s : s[j] = c /\ \A k \in 1..(j - 1) : s[k] # c
         IN  <<SubSeq(s, 1, i - 1)>> \o Split(SubSeq(s, i + 1, Len(s)), c)

\* sep.join(parts)
RECURSIVE Join(_, _)
Join(parts, sep) ==
    IF parts = <<>> THEN <<>>
    ELSE IF Len(parts) = 1 THEN parts[1]
    ELSE parts[1] \o sep \o Join(Tail(parts), sep)

\* str(v)
StrOf(v) == IF v = None THEN <<"N", "o", "n", "e">>
            ELSE IF IsInt(v) THEN NatStr(v[2])
            ELSE v

----------------------------------------------------------------------------
(* Temporal normalizer *)

Pad2(n) == IF n < 10 THEN <<"0">> \o NatStr(n) ELSE NatStr(n)

\* a strptime field of one or two digits with a value of at most max
TimeField(s, max) == Len(s) \in {1, 2} /\ AllDigits(s) /\ NatOf(s) <= max

\* the text after an optional sign
Unsigned(s) == IF s # <<>> /\ s[1] \in {"+", "-"} THEN Tail(s) ELSE s

Sign(s) == IF s # <<>> /\ s[1] = "-" THEN -1 ELSE 1

\* int(s) accepts s
IsIntLiteral(s) == AllDigits(Unsigned(s))

\* float(s) accepts s: digits with an optional fraction, or a bare fraction
IsFloatLiteral(s) ==
    LET u == Unsigned(s)
        p == Split(u, ".")
    IN  \/ AllDigits(u)
        \/ /\ Len(p) = 2
           /\ p[1] = <<>> \/ AllDigits(p[1])
           /\ p[2] = <<>> \/ AllDigits(p[2])
           /\ p[1] # <<>> \/ p[2] # <<>>

\* F applied to the value v, which is computed once
With(v, F(_)) == F(v)

\* the fraction digits of an unsigned float literal ("" when it has none)
Fraction(u) == With(Split(u, "."), LAMBDA p : IF Len(p) = 2 THEN p[2] ELSE <<>>)

\* the whole milliseconds in |float(s)| for a float literal s
WholeMillis(s) ==
    NatOf(Split(Unsigned(s), ".")[1]) * 1000
        + NatOf(SubSeq(Fraction(Unsigned(s)) \o <<"0", "0", "0">>, 1, 3))

\* float(s) has a part below the millisecond
SubMillis(s) ==
    With(Fraction(Unsigned(s)), LAMBDA f : \E i \in 4..Len(f) : f[i] # "0")

\* int(x) for x = whole + sign * eps with 0 < eps < 1 when sub, eps = 0 otherwise
TruncToInt(whole, sign, sub) ==
    IF sub /\ sign > 0 /\ whole < 0 THEN whole + 1
    ELSE IF sub /\ sign < 0 /\ whole > 0 THEN whole - 1
    ELSE whole

\* def convert_time_to_ms(time_str); the product total_seconds * 1000 is
\* computed in decimal, without the rounding of binary floating point
convert_time_to_ms(time_str) ==
    IF Falsy(time_str) THEN None
    ELSE IF IsInt(time_str) THEN None
    ELSE With(Split(time_str, ":"), LAMBDA parts :
             IF Len(parts) = 2
             THEN IF IsIntLiteral(parts[1]) /\ IsFloatLiteral(parts[2])
                  THEN MkInt(TruncToInt(Sign(parts[1]) * NatOf(Unsigned(parts[1])) * 60000
                                            + Sign(parts[2]) * WholeMillis(parts[2]),
                                        Sign(parts[2]), SubMillis(parts[2])))
                  ELSE None
             ELSE None)

\* strptime(text, '%H:%M:%S' or '%H:%M:%S.%f').strftime('%H:%M:%S') for the
\* text whose pieces between the colons are fields; None for a ValueError
ParseClock(fields, fraction) ==
    IF Len(fields) # 3 THEN None
    ELSE With(Split(fields[3], "."), LAMBDA sec :
             IF /\ TimeField(fields[1], 23)
                /\ TimeField(fields[2], 59)
                /\ TimeField(sec[1], 59)
                /\ IF fraction
                   THEN Len(sec) = 2 /\ Len(sec[2]) \in 1..6 /\ AllDigits(sec[2])
                   ELSE Len(sec) = 1
             THEN Pad2(NatOf(fields[1])) \o <<":">> \o Pad2(NatOf(fields[2]))
                      \o <<":">> \o Pad2(NatOf(sec[1]))
             ELSE None)

\* def format_race_time(time_str)
format_race_time(time_str) ==
    IF Falsy(time_str) THEN None
    ELSE IF IsInt(time_str) THEN None
    ELSE IF Contains(time_str, ":")
    THEN With(Split(time_str, ":"), LAMBDA parts :
             ParseClock(IF Len(parts) = 2 THEN <<<<"0", "0">>>> \o parts ELSE parts,
                        Contains(time_str, ".")))
    ELSE None

\* int(v) raises ValueError
IntRaises(v) == ~IsInt(v) /\ ~IsIntLiteral(v)

\* int(v)
IntOf(v) == IF IsInt(v) THEN v ELSE MkInt(Sign(v) * NatOf(Unsigned(v)))

----------------------------------------------------------------------------
(* The store: select / insert / update through the query interface *)

Tables == {"event", "category", "competitor", "race", "schedule", "result"}

\* the columns the pipeline writes, per table
Columns ==
    [event      |-> {"id", "name", "start_date", "end_date", "location", "provider_id"},
     category   |-> {"id", "name", "title", "course_length", "abbreviation"},
     competitor |-> {"id", "name_long", "name_short", "designation", "external_id"},
     race       |-> {"id", "race_num", "race_day", "race_time", "sub_type", "fingerprint"},
     schedule   |-> {"id", "event_id", "race_id", "category_id"},
     result     |-> {"id", "schedule_id", "competitor_id", "placement", "lane_boat_number",
                     "start_time", "finish_time", "raw_time", "total_time", "adjustment",
                     "handicap", "remark", "notes"}]

EmptyStore == [t \in Tables |-> <<>>]

\* filter terms: .eq(column, v) and .is_(column, None)
Eq(v) == <<"eq", v>>

IsNull == <<"is", None>>

\* a row passes a filter: SQL equality is never true of a null column
Matches(row, filter) ==
    \A c \in DOMAIN filter :
        IF filter[c][1] = "eq"
        THEN Get(row, c) # None /\ Get(row, c) = filter[c][2]
        ELSE Get(row, c) = None

\* table(t).select(...).<filter>.execute().data
Select(store, t, filter) == SelectSeq(store[t], LAMBDA row : Matches(row, filter))

\* the id the store assigns to the next row of table t (rows are never deleted)
NextId(store, t) == MkInt(Len(store[t]) + 1)

\* the row created by table(t).insert(data): columns not given are null
NewRow(store, t, data) ==
    Merge([id |-> NextId(store, t)], Merge(data, [c \in Columns[t] |-> None]))

\* table(t).insert(data).execute()
Insert(store, t, data) == [store EXCEPT ![t] = Append(@, NewRow(store, t, data))]

\* an update done as delete and insert: the row leaves its place and comes
\* back under a new id
update_by_replacing(store, t, data, id) ==
    [store EXCEPT ![t] =
        SelectSeq(@, LAMBDA row : row.id # id)
            \o [i \in 1..Cardinality({j \in DOMAIN @ : @[j].id = id}) |->
                    Merge([id |-> MkInt(Len(@) + 1)],
                          Merge(data, @[CHOOSE j \in DOMAIN @ : @[j].id = id]))]]

\* table(t).update(data).eq("id", id).execute(): only the given columns change
Update(store, t, data, id) ==
    [store EXCEPT ![t] = [i \in DOMAIN @ |-> IF @[i].id = id THEN Merge(data, @[i]) ELSE @[i]]]

\* entries of the log of store operations
SelectOp(t) == [op |-> "select", table |-> t, id |-> None, data |-> <<>>]

InsertOp(store, t, data) == [op |-> "insert", table |-> t, id |-> NextId(store, t), data |-> data]

UpdateOp(t, data, id) == [op |-> "update", table |-> t, id |-> id, data |-> data]

\* what a resolver hands back: the store after it, its return value, its store operations
Done(store, r, o) == [db |-> store, ret |-> r, ops |-> o]

----------------------------------------------------------------------------
(* Identity resolvers *)

\* get_or_create_competitor handing out the id of a row it does not insert
get_or_create_competitor_unsaved(store, competitor_data) ==
    LET name_long   == Get(competitor_data, "name_long")
        designation == Get(competitor_data, "designation")
        filter      == IF ~Falsy(designation)
                       THEN [name_long |-> Eq(name_long), designation |-> Eq(designation)]
                       ELSE [name_long |-> Eq(name_long), designation |-> IsNull]
    IN  IF Falsy(name_long) THEN Done(store, None, <<>>)
        ELSE With(Select(store, "competitor", filter), LAMBDA found :
                 IF found # <<>>
                 THEN Done(store, found[1].id, <<SelectOp("competitor")>>)
                 ELSE Done(store, NextId(store, "competitor"), <<SelectOp("competitor")>>))

\* def get_or_create_competitor(supabase, competitor_data)
get_or_create_competitor(store, competitor_data) ==
    LET name_long   == Get(competitor_data, "name_long")
        designation == Get(competitor_data, "designation")
        filter      == IF ~Falsy(designation)
                       THEN [name_long |-> Eq(name_long), designation |-> Eq(designation)]
                       ELSE [name_long |-> Eq(name_long), designation |-> IsNull]
        competitor_payload ==
            [name_long   |-> name_long,
             name_short  |-> Get(competitor_data, "name_short"),
             designation |-> designation,
             external_id |-> Get(competitor_data, "external_id")]
    IN  IF Falsy(name_long) THEN Done(store, None, <<>>)
        ELSE With(Select(store, "competitor", filter), LAMBDA found :
                 IF found # <<>>
                 THEN Done(store, found[1].id, <<SelectOp("competitor")>>)
                 ELSE Done(Insert(store, "competitor", competitor_payload),
                           NextId(store, "competitor"),
                           <<SelectOp("competitor"),
                             InsertOp(store, "competitor", competitor_payload)>>))

\* def get_or_create_category(supabase, category_data, abbreviation)
get_or_create_category(store, category_data, abbreviation) ==
    LET name == Get(category_data, "name")
        category_payload ==
            [name          |-> name,
             title         |-> Get(category_data, "title"),
             course_length |-> Get(category_data, "course_length"),
             abbreviation  |-> abbreviation]
    IN  IF Falsy(name) THEN Done(store, None, <<>>)
        ELSE With(Select(store, "category", [name |-> Eq(name)]), LAMBDA found :
                 IF found # <<>>
                 THEN Done(store, found[1].id, <<SelectOp("category")>>)
                 ELSE Done(Insert(store, "category", category_payload),
                           NextId(store, "category"),
                           <<SelectOp("category"),
                             InsertOp(store, "category", category_payload)>>))

\* the provider id upsert_event writes
ClockCasterProvider == 1

\* def upsert_event(supabase, event_data)
upsert_event(store, event_data) ==
    LET name       == Get(event_data, "name")
        start_date == Get(event_data, "start_date")
        event_payload ==
            [name        |-> name,
             start_date  |-> start_date,
             end_date    |-> IF Falsy(Get(event_data, "end_date"))
                             THEN start_date ELSE Get(event_data, "end_date"),
             location    |-> Get(event_data, "location"),
             provider_id |-> MkInt(ClockCasterProvider)]
    IN  IF Falsy(name) \/ Falsy(start_date) THEN Done(store, None, <<>>)
        ELSE With(Select(store, "event", [name |-> Eq(name), start_date |-> Eq(start_date)]),
                  LAMBDA found :
                 IF found # <<>>
                 THEN Done(Update(store, "event", event_payload, found[1].id),
                           found[1].id,
                           <<SelectOp("event"), UpdateOp("event", event_payload, found[1].id)>>)
                 ELSE Done(Insert(store, "event", event_payload),
                           NextId(store, "event"),
                           <<SelectOp("event"), InsertOp(store, "event", event_payload)>>))

\* generate_race_fingerprint leaving the race abbreviation out
fingerprint_without_race_abrev(event_name, race_data, schedule_item) ==
    Lower(Join(SelectSeq(<<Replace(event_name, " ", "_"),
                           StrOf(GetDefault(race_data, "race_day", <<>>)),
                           StrOf(GetDefault(race_data, "race_num", <<>>)),
                           GetDefault(schedule_item, "cat_abrev", <<>>)>>,
                         LAMBDA c : ~Falsy(c)), <<"_">>))

\* def generate_race_fingerprint(event_name, race_data, schedule_item)
generate_race_fingerprint(event_name, race_data, schedule_item) ==
    LET components ==
            <<Replace(event_name, " ", "_"),
              StrOf(GetDefault(race_data, "race_day", <<>>)),
              StrOf(GetDefault(race_data, "race_num", <<>>)),
              GetDefault(schedule_item, "cat_abrev", <<>>),
              GetDefault(schedule_item, "race_abrev", <<>>)>>
    IN  Lower(Join(SelectSeq(components, LAMBDA c : ~Falsy(c)), <<"_">>))

\* the dict upsert_race writes, the fingerprint left out
race_row_data_without_fingerprint(race_data, fingerprint) == Without(race_data, "start_armed")

\* upsert_race, the dict it writes: race_data with the fingerprint, without start_armed
race_row_data(race_data, fingerprint) ==
    Without(Merge([fingerprint |-> fingerprint], race_data), "start_armed")

\* upsert_race without the check of race_num
upsert_race_unguarded(store, race_data, fingerprint) ==
    With(Select(store, "race", [fingerprint |-> Eq(fingerprint)]), LAMBDA found :
    With(race_row_data(race_data, fingerprint), LAMBDA data :
        IF found # <<>>
        THEN Done(Update(store, "race", data, found[1].id),
                  found[1].id,
                  <<SelectOp("race"), UpdateOp("race", data, found[1].id)>>)
        ELSE Done(Insert(store, "race", data),
                  NextId(store, "race"),
                  <<SelectOp("race"), InsertOp(store, "race", data)>>)))

\* def upsert_race(supabase, race_data, fingerprint)
upsert_race(store, race_data, fingerprint) ==
    IF Falsy(Get(race_data, "race_num")) THEN Done(store, None, <<>>)
    ELSE With(Select(store, "race", [fingerprint |-> Eq(fingerprint)]), LAMBDA found :
         With(race_row_data(race_data, fingerprint), LAMBDA data :
             IF found # <<>>
             THEN Done(Update(store, "race", data, found[1].id),
                       found[1].id,
                       <<SelectOp("race"), UpdateOp("race", data, found[1].id)>>)
             ELSE Done(Insert(store, "race", data),
                       NextId(store, "race"),
                       <<SelectOp("race"), InsertOp(store, "race", data)>>)))

\* upsert_schedule without the lookup: a row is inserted on every call
upsert_schedule_without_lookup(store, event_id, race_id, category_id) ==
    LET key == [event_id |-> event_id, race_id |-> race_id, category_id |-> category_id]
    IN  Done(Insert(store, "schedule", key), NextId(store, "schedule"),
             <<SelectOp("schedule"), InsertOp(store, "schedule", key)>>)

\* def upsert_schedule(supabase, event_id, race_id, category_id)
upsert_schedule(store, event_id, race_id, category_id) ==
    LET key == [event_id |-> event_id, race_id |-> race_id, category_id |-> category_id]
    IN  With(Select(store, "schedule", [c \in DOMAIN key |-> Eq(key[c])]), LAMBDA found :
            IF found # <<>>
            THEN Done(store, found[1].id, <<SelectOp("schedule")>>)
            ELSE Done(Insert(store, "schedule", key),
                      NextId(store, "schedule"),
                      <<SelectOp("schedule"), InsertOp(store, "schedule", key)>>))

\* upsert_result looking the row up by the competitor, not by the lane
upsert_result_by_competitor(store, result_data, schedule_id) ==
    IF Falsy(Get(result_data, "lane_boat_number")) THEN Done(store, None, <<>>)
    ELSE With(Select(store, "result",
                     [schedule_id   |-> Eq(schedule_id),
                      competitor_id |-> Eq(Get(result_data, "competitor_id"))]), LAMBDA found :
         With(Merge([schedule_id |-> schedule_id], result_data), LAMBDA data :
             IF found # <<>>
             THEN Done(Update(store, "result", data, found[1].id),
                       found[1].id,
                       <<SelectOp("result"), UpdateOp("result", data, found[1].id)>>)
             ELSE Done(Insert(store, "result", data),
                       NextId(store, "result"),
                       <<SelectOp("result"), InsertOp(store, "result", data)>>)))

\* def upsert_result(supabase, result_data, schedule_id)
upsert_result(store, result_data, schedule_id) ==
    IF Falsy(Get(result_data, "lane_boat_number")) THEN Done(store, None, <<>>)
    ELSE With(Select(store, "result",
                     [schedule_id      |-> Eq(schedule_id),
                      lane_boat_number |-> Eq(result_data.lane_boat_number)]), LAMBDA found :
         With(Merge([schedule_id |-> schedule_id], result_data), LAMBDA data :
             IF found # <<>>
             THEN Done(Update(store, "result", data, found[1].id),
                       found[1].id,
                       <<SelectOp("result"), UpdateOp("result", data, found[1].id)>>)
             ELSE Done(Insert(store, "result", data),
                       NextId(store, "result"),
                       <<SelectOp("result"), InsertOp(store, "result", data)>>)))

----------------------------------------------------------------------------
(* The synchronization pass *)

\* the state threaded through a pass: the store, the log of store operations,
\* and whether an exception has ended the pass
Pass(store, o, r) == [db |-> store, ops |-> o, raised |-> r]

\* the pass goes on after the resolver call x / is ended by an exception after it
Continue(o, x) == Pass(x.db, o \o x.ops, FALSE)

Raise(o, x) == Pass(x.db, o \o x.ops, TRUE)

\* process_data, the result_data dict: built from the result, None values dropped
result_data_of(result, competitor_id) ==
    DropNone(
        [competitor_id    |-> competitor_id,
         placement        |-> IF ~Falsy(Get(result, "placement"))
                              THEN IntOf(result.placement) ELSE None,
         lane_boat_number |-> Get(result, "lane_boat_number"),
         start_time       |-> format_race_time(Get(result, "start_time")),
         finish_time      |-> format_race_time(Get(result, "finish_time")),
         raw_time         |-> format_race_time(Get(result, "raw_time")),
         total_time       |-> convert_time_to_ms(Get(result, "total_time")),
         adjustment       |-> Get(result, "adjustment"),
         handicap         |-> Get(result, "handicap"),
         remark           |-> Get(result, "remark"),
         notes            |-> Get(result, "notes")])

\* process_data, the body of `for result in ...` once get_or_create_competitor
\* has returned c: skip the result, or die in int(), or upsert the result
result_after_competitor(st, result, schedule_id, c) ==
    IF Falsy(c.ret) THEN Continue(st.ops, c)
    ELSE IF ~Falsy(Get(result, "placement")) /\ IntRaises(result.placement)
    THEN Raise(st.ops, c)
    ELSE Continue(st.ops \o c.ops,
                  upsert_result(c.db, result_data_of(result, c.ret), schedule_id))

\* process_data, the body of `for result in schedule_item.get("results", [])`
process_result(st, result, schedule_id) ==
    result_after_competitor(st, result, schedule_id,
        get_or_create_competitor(st.db, GetDefault(result, "competitor", <<>>)))

\* process_data, the loop `for result in schedule_item.get("results", [])`
RECURSIVE process_results(_, _, _)
process_results(st, results, schedule_id) ==
    IF results = <<>> \/ st.raised THEN st
    ELSE process_results(process_result(st, Head(results), schedule_id),
                         Tail(results), schedule_id)

\* process_data, the schedule item once upsert_schedule has returned s
item_after_schedule(st, schedule_item, s) ==
    IF Falsy(s.ret) THEN Continue(st.ops, s)
    ELSE process_results(Continue(st.ops, s), GetDefault(schedule_item, "results", <<>>), s.ret)

\* process_data, the schedule item once get_or_create_category has returned c
item_after_category(st, schedule_item, event_id, race_id, c) ==
    IF Falsy(c.ret) THEN Continue(st.ops, c)
    ELSE item_after_schedule(Continue(st.ops, c), schedule_item,
                             upsert_schedule(c.db, event_id, race_id, c.ret))

\* process_data, the schedule item once upsert_race has returned r
item_after_race(st, schedule_item, event_id, r) ==
    IF Falsy(r.ret) THEN Continue(st.ops, r)
    ELSE item_after_category(Continue(st.ops, r), schedule_item, event_id, r.ret,
             get_or_create_category(r.db, GetDefault(schedule_item, "category", <<>>),
                                    Get(schedule_item, "cat_abrev")))

\* process_data, the race_data of a schedule item: a copy without start_armed
race_data_of(schedule_item) == Without(GetDefault(schedule_item, "race", <<>>), "start_armed")

\* process_data, the body of `for schedule_item in payload.get("schedule", [])`
process_schedule_item(st, schedule_item, event_data, event_id) ==
    item_after_race(st, schedule_item, event_id,
        upsert_race(st.db, race_data_of(schedule_item),
                    generate_race_fingerprint(event_data.name, race_data_of(schedule_item),
                                              schedule_item)))

\* the loop over the schedule run from the last item to the first
RECURSIVE process_schedule_backwards(_, _, _, _)
process_schedule_backwards(st, schedule, event_data, event_id) ==
    IF schedule = <<>> \/ st.raised THEN st
    ELSE process_schedule_backwards(
             process_schedule_item(st, schedule[Len(schedule)], event_data, event_id),
             SubSeq(schedule, 1, Len(schedule) - 1), event_data, event_id)

\* process_data, the loop `for schedule_item in payload.get("schedule", [])`
RECURSIVE process_schedule(_, _, _, _)
process_schedule(st, schedule, event_data, event_id) ==
    IF schedule = <<>> \/ st.raised THEN st
    ELSE process_schedule(process_schedule_item(st, Head(schedule), event_data, event_id),
                          Tail(schedule), event_data, event_id)

\* how a pass ended: "complete" (ran over the whole tree) or "raised"
Ended(st) == [db |-> st.db, ops |-> st.ops,
              outcome |-> IF st.raised THEN "raised" ELSE "complete"]

\* process_data once upsert_event has returned e: return early, or run the loop
pass_after_event(p, e) ==
    IF Falsy(e.ret)
    THEN [db |-> e.db, ops |-> e.ops, outcome |-> "early"]
    ELSE Ended(process_schedule(Pass(e.db, e.ops, FALSE), GetDefault(p, "schedule", <<>>),
                                GetDefault(p, "info", <<>>), e.ret))

\* def process_data(payload, supabase): the store after the pass, the store
\* operations it issued, and how it ended ("complete", "early" or "raised")
process_data(store, p) == pass_after_event(p, upsert_event(store, GetDefault(p, "info", <<>>)))

----------------------------------------------------------------------------
(* The poll loop *)

\* def calculate_data_hash(data): the md5 digest of the key-sorted JSON text.
\* The digest is taken to be collision-free: it is a tag on the canonical
\* (key-order-free) form of the payload, which is what a dict is here.
calculate_data_hash(data) == <<"md5", data>>

\* what fetch_clockcaster_data hands back after a failure (None; an empty
\* payload is as false as None to `if not data`)
FetchFailed == <<>>

\* no pass ran
Skipped(store) == [db |-> store, ops |-> <<>>, outcome |-> "none"]

\* poll_iteration without the comparison of the hashes: every fetched payload
\* is processed
poll_iteration_always(baseline, store, file, data, save_ok) ==
    IF data = FetchFailed
    THEN [kind |-> "fetch_failed", last_data_hash |-> baseline, pass |-> Skipped(store),
          snapshot |-> file, saved |-> FALSE]
    ELSE [kind |-> "processed", last_data_hash |-> calculate_data_hash(data),
          pass |-> process_data(store, data),
          snapshot |-> IF save_ok THEN data ELSE file, saved |-> save_ok]

\* poll_iteration forgetting the baseline when the fetch fails
poll_iteration_forgetting(baseline, store, file, data, save_ok) ==
    IF data = FetchFailed
    THEN [kind |-> "fetch_failed", last_data_hash |-> None, pass |-> Skipped(store),
          snapshot |-> file, saved |-> FALSE]
    ELSE IF calculate_data_hash(data) # baseline
    THEN [kind |-> "processed", last_data_hash |-> calculate_data_hash(data),
          pass |-> process_data(store, data),
          snapshot |-> IF save_ok THEN data ELSE file, saved |-> save_ok]
    ELSE [kind |-> "unchanged", last_data_hash |-> baseline, pass |-> Skipped(store),
          snapshot |-> file, saved |-> FALSE]

\* poll_iteration without the `except Exception` of the loop: an exception
\* raised inside process_data leaves the loop
poll_iteration_uncaught(baseline, store, file, data, save_ok) ==
    IF data = FetchFailed
    THEN [kind |-> "fetch_failed", last_data_hash |-> baseline, pass |-> Skipped(store),
          snapshot |-> file, saved |-> FALSE]
    ELSE IF calculate_data_hash(data) # baseline
    THEN With(process_data(store, data), LAMBDA pass :
             [kind |-> IF pass.outcome = "raised" THEN "stopped" ELSE "processed",
              last_data_hash |-> calculate_data_hash(data),
              pass |-> pass,
              snapshot |-> IF save_ok THEN data ELSE file, saved |-> save_ok])
    ELSE [kind |-> "unchanged", last_data_hash |-> baseline, pass |-> Skipped(store),
          snapshot |-> file, saved |-> FALSE]

\* One iteration of the `while True` loop of poll_and_process, from the fetch
\* to the sleep.  data is what fetch_clockcaster_data returned, save_ok
\* whether save_data_to_file could write the file.  An exception raised
\* inside process_data is caught by the `except Exception` of the loop, which
\* sleeps and goes on: no iteration is of the kind "stopped", the kind of an
\* iteration that an exception leaves the loop from.
poll_iteration(baseline, store, file, data, save_ok) ==
    IF data = FetchFailed
    THEN [kind |-> "fetch_failed", last_data_hash |-> baseline, pass |-> Skipped(store),
          snapshot |-> file, saved |-> FALSE]
    ELSE IF calculate_data_hash(data) # baseline
    THEN [kind |-> "processed", last_data_hash |-> calculate_data_hash(data),
          pass |-> process_data(store, data),
          snapshot |-> IF save_ok THEN data ELSE file, saved |-> save_ok]
    ELSE [kind |-> "unchanged", last_data_hash |-> baseline, pass |-> Skipped(store),
          snapshot |-> file, saved |-> FALSE]

----------------------------------------------------------------------------
(* Inputs *)

\* how many process_data calls, resolver calls and poll iterations a behaviour has
MaxPasses == 2

MaxCalls == 2

MaxTicks == 2

\* how many items the schedule of a payload has at most
MaxItems == 2

EventName == <<"A", " ", "b">>

GoodInfo == [name |-> EventName, start_date |-> <<"d", "1">>, location |-> <<"L">>]

\* competitors: designation "A", no designation, designation "", no name_long
CompA == [name_long |-> <<"N">>, name_short |-> <<"s">>, designation |-> <<"A">>]

CompAbsent == [name_long |-> <<"N">>, name_short |-> <<"s">>]

CompEmpty == [name_long |-> <<"N">>, name_short |-> <<"s">>, designation |-> <<>>]

CompNoName == [name_short |-> <<"s">>]

BaseResult ==
    [lane_boat_number |-> <<"1">>,
     competitor       |-> CompA,
     placement        |-> <<"1">>,
     start_time       |-> <<"8", ":", "1", "5", ":", "0", "0">>,
     total_time       |-> <<"1", ":", "0", "5">>,
     remark           |-> <<"r">>]

\* a second lane of the same race
Lane2Result ==
    [lane_boat_number |-> <<"2">>,
     competitor       |-> CompAbsent,
     placement        |-> <<"2">>,
     total_time       |-> <<"1", ":", "0", "7">>]

\* the results lists of the schedule items
ResultLists ==
    { <<BaseResult>>,
      <<BaseResult, Lane2Result>>,
      \* a placement that is no integer, followed by a sibling
      <<Merge([placement |-> <<"x">>], BaseResult), Lane2Result>>,
      \* unparseable times, followed by a sibling
      <<Merge([start_time |-> <<"z">>, total_time |-> <<"z", ":", "z">>], BaseResult),
        Lane2Result>>,
      \* no competitor name, followed by a sibling
      <<Merge([competitor |-> CompNoName], BaseResult), Lane2Result>>,
      \* no lane / boat number, followed by a sibling
      <<Without(BaseResult, "lane_boat_number"), Lane2Result>>,
      \* the designation is ""
      <<Merge([competitor |-> CompEmpty], BaseResult)>>,
      \* the same lane twice
      <<BaseResult, Merge([competitor |-> CompAbsent, placement |-> <<"3">>], BaseResult)>>,
      \* fields of the base result missing, one field changed
      <<Without(Without(Without(BaseResult, "placement"), "total_time"), "remark")>>,
      <<Merge([placement |-> <<"2">>], BaseResult)>>,
      \* the designation is "", one field changed
      <<Merge([competitor |-> CompEmpty, placement |-> <<"2">>], BaseResult)>> }

BaseRace == [race_num |-> <<"1">>, race_day |-> <<"5">>, race_time |-> <<"t">>]

BaseCategory == [name |-> <<"C">>, title |-> <<"T">>]

Item(race, category, cat_abrev, results) ==
    [race |-> race, category |-> category, cat_abrev |-> cat_abrev, results |-> results]

BaseItem == Item(BaseRace, BaseCategory, <<"M", "V">>, <<BaseResult>>)

\* the schedule items: the base race with each results list, and the base
\* results under a race without number, a race with the armed flag, another
\* race, a category without name, and an abbreviation in another letter case
Items ==
    { Item(BaseRace, BaseCategory, <<"M", "V">>, rs) : rs \in ResultLists }
    \cup { Item(Without(BaseRace, "race_num"), BaseCategory, <<"M", "V">>, <<BaseResult>>),
           Item(Merge([start_armed |-> <<"y">>], BaseRace), BaseCategory, <<"M", "V">>,
                <<BaseResult>>),
           Item(Merge([race_num |-> <<"2">>], BaseRace), BaseCategory, <<"M", "V">>,
                <<BaseResult>>),
           Item(BaseRace, <<>>, <<"M", "V">>, <<BaseResult>>),
           Item(BaseRace, BaseCategory, <<"m", "v">>, <<BaseResult>>) }

\* the schedules: up to MaxItems items, all but at most one of them the base item
Schedules ==
    UNION { { [i \in 1..n |-> IF i = k THEN it ELSE BaseItem] : k \in 1..n, it \in Items }
            : n \in 0..MaxItems }

\* the payloads: the good event with each schedule, and an event without name
Payloads ==
    { [info |-> GoodInfo, schedule |-> sch] : sch \in Schedules }
    \cup { [info |-> Without(GoodInfo, "name"), schedule |-> <<BaseItem>>] }

NoPayload == <<>>

NoCall == [n |-> 0, op |-> "none", args |-> <<>>]

NoTick == [n |-> 0, kind |-> "none", saved |-> FALSE]

\* the extraction has not been started
NoScrape == [info |-> <<>>, headers |-> <<>>, next |-> 1, schedule |-> <<>>, status |-> "none"]

RowCounts(store) == [t \in Tables |-> Len(store[t])]

----------------------------------------------------------------------------
(* Synchronization passes: process_data run over one payload after another *)

Init ==
    /\ db = EmptyStore
    /\ call = NoCall
    /\ ret = None
    /\ ops = <<>>
    /\ payload = NoPayload
    /\ outcome = "none"
    /\ npass = 0
    /\ last_data_hash = None
    /\ snapshot = NoPayload
    /\ nsnap = 0
    /\ tick = NoTick
    /\ scrape = NoScrape

\* the variables a finished process_data call leaves behind
PassDone(pass) ==
    /\ db' = pass.db
    /\ ops' = pass.ops
    /\ outcome' = pass.outcome

\* main, one-shot mode: process_data(payload, supabase)
ProcessData(p) ==
    /\ npass < MaxPasses
    /\ PassDone(process_data(db, p))
    /\ call' = [n |-> 0, op |-> "process_data", args |-> <<>>]
    /\ ret' = None
    /\ payload' = p
    /\ npass' = npass + 1
    /\ UNCHANGED <<last_data_hash, snapshot, nsnap, tick, scrape>>

Next == \E p \in Payloads : ProcessData(p)

Spec == Init /\ [][Next]_vars

----------------------------------------------------------------------------
(* The resolvers called one at a time, on an empty store or on the store a *)
(* pass over the base payload leaves                                        *)

BasePayload == [info |-> GoodInfo, schedule |-> <<BaseItem>>]

SeededStore == process_data(EmptyStore, BasePayload).db

\* competitor dicts: the name missing or "", the designation missing, null,
\* "" or "A", two short names
CompetitorArgs ==
    { [name_short |-> <<"s">>], [name_long |-> <<>>, name_short |-> <<"s">>] }
    \cup { Merge([name_short |-> sh], c) :
               sh \in {<<"s">>, <<"t">>},
               c \in { [name_long |-> <<"N">>],
                       [name_long |-> <<"N">>, designation |-> None],
                       [name_long |-> <<"N">>, designation |-> <<>>],
                       [name_long |-> <<"N">>, designation |-> <<"A">>] } }

CategoryArgs == { [title |-> <<"T">>], [name |-> <<"C">>, title |-> <<"T">>],
                  [name |-> <<"C">>, title |-> <<"U">>] }

EventArgs ==
    { Without(GoodInfo, "name"), Without(GoodInfo, "start_date"), GoodInfo,
      Merge([location |-> <<"K">>], GoodInfo),
      Merge([end_date |-> <<"d", "2">>], GoodInfo),
      Without(GoodInfo, "location") }

\* a dict with the keys of d whose value is not the marker Missing
Missing == <<"<missing>">>

Present(d) == [k \in {j \in DOMAIN d : d[j] # Missing} |-> d[k]]

\* schedule items for the race resolver: each of race day, category
\* abbreviation and race abbreviation missing or given, the category
\* abbreviation in two letter cases and with an underscore, two race
\* abbreviations; a race without number; another race time; the armed flag
RaceItems ==
    { Merge([race |-> Present([race_num |-> <<"1">>, race_day |-> d, race_time |-> <<"t">>])],
            Present([cat_abrev |-> c, race_abrev |-> r])) :
          d \in {Missing, <<"5">>},
          c \in {Missing, <<"m">>, <<"M">>, <<"m", "_", "x">>},
          r \in {Missing, <<"x">>, <<"y">>} }
    \cup { [race |-> [race_day |-> <<"5">>, race_time |-> <<"t">>], cat_abrev |-> <<"m">>],
           [race |-> [race_num |-> <<"1">>, race_day |-> <<"5">>, race_time |-> <<"u">>],
            cat_abrev |-> <<"m">>],
           [race |-> [race_num |-> <<"1">>, race_day |-> <<"5">>, race_time |-> <<"t">>,
                      start_armed |-> <<"y">>],
            cat_abrev |-> <<"m">>] }

\* result_data dicts as process_data builds them, for the competitor c
ResultArgs(c) ==
    { Present([competitor_id |-> c, lane_boat_number |-> l, placement |-> pl,
               remark |-> <<"r">>]) :
          l \in {Missing, <<"1">>, <<"2">>}, pl \in {Missing, MkInt(2)} }

\* the ids of the rows of a table
Ids(store, t) == {store[t][i].id : i \in DOMAIN store[t]}

InitResolve ==
    /\ db \in {EmptyStore, SeededStore}
    /\ call = NoCall
    /\ ret = None
    /\ ops = <<>>
    /\ payload = NoPayload
    /\ outcome = "none"
    /\ npass = 0
    /\ last_data_hash = None
    /\ snapshot = NoPayload
    /\ nsnap = 0
    /\ tick = NoTick
    /\ scrape = NoScrape

\* the variables a resolver call leaves behind; x is what the resolver handed back
Resolved(name, args, x) ==
    /\ db' = x.db
    /\ ret' = x.ret
    /\ ops' = x.ops
    /\ call' = [n |-> call.n + 1, op |-> name, args |-> args]
    /\ UNCHANGED <<payload, outcome, npass, last_data_hash, snapshot, nsnap, tick, scrape>>

GetOrCreateCompetitor(competitor_data) ==
    /\ call.n < MaxCalls
    /\ Resolved("get_or_create_competitor", <<competitor_data>>,
                get_or_create_competitor(db, competitor_data))

GetOrCreateCategory(category_data) ==
    /\ call.n < MaxCalls
    /\ Resolved("get_or_create_category", <<category_data>>,
                get_or_create_category(db, category_data, <<"M", "V">>))

UpsertEvent(event_data) ==
    /\ call.n < MaxCalls
    /\ Resolved("upsert_event", <<event_data>>, upsert_event(db, event_data))

\* the race of a schedule item resolved as process_data does it: the copy
\* without start_armed, its fingerprint, upsert_race
UpsertRace(schedule_item) ==
    /\ call.n < MaxCalls
    /\ Resolved("upsert_race", <<schedule_item>>,
                upsert_race(db, race_data_of(schedule_item),
                            generate_race_fingerprint(EventName, race_data_of(schedule_item),
                                                      schedule_item)))

UpsertSchedule(event_id, race_id, category_id) ==
    /\ call.n < MaxCalls
    /\ Resolved("upsert_schedule", <<event_id, race_id, category_id>>,
                upsert_schedule(db, event_id, race_id, category_id))

UpsertResult(result_data, schedule_id) ==
    /\ call.n < MaxCalls
    /\ Resolved("upsert_result", <<result_data, schedule_id>>,
                upsert_result(db, result_data, schedule_id))

NextResolve ==
    \/ \E competitor_data \in CompetitorArgs : GetOrCreateCompetitor(competitor_data)
    \/ \E category_data \in CategoryArgs : GetOrCreateCategory(category_data)
    \/ \E event_data \in EventArgs : UpsertEvent(event_data)
    \/ \E schedule_item \in RaceItems : UpsertRace(schedule_item)
    \/ \E e \in Ids(db, "event"), r \in Ids(db, "race"), c \in Ids(db, "category") :
           UpsertSchedule(e, r, c)
    \/ \E c \in Ids(db, "competitor"), s \in Ids(db, "schedule") :
           \E result_data \in ResultArgs(c) : UpsertResult(result_data, s)

SpecResolve == InitResolve /\ [][NextResolve]_vars

----------------------------------------------------------------------------
(* Passes that may be cut short: the process dies between two store         *)
(* operations of process_data, and process_data is run again                *)

\* the store after the store operations of the log o, applied in order
RECURSIVE Replay(_, _)
Replay(store, o) ==
    IF o = <<>> THEN store
    ELSE Replay(IF Head(o).op = "insert" THEN Insert(store, Head(o).table, Head(o).data)
                ELSE IF Head(o).op = "update"
                THEN Update(store, Head(o).table, Head(o).data, Head(o).id)
                ELSE store,
                Tail(o))

\* process_data cut short after its first n store operations
Interrupted(pass, n) ==
    [db |-> Replay(db, SubSeq(pass.ops, 1, n)), ops |-> SubSeq(pass.ops, 1, n),
     outcome |-> "interrupted"]

\* the payloads of the passes that may be cut short: those with one schedule item
CrashPayloads == {p \in Payloads : Len(p.schedule) = 1}

\* the process dies somewhere inside process_data(p), pass being what the
\* whole call would have done
InterruptedIn(pass, p) ==
    \E n \in 0..(Len(pass.ops) - 1) :
        /\ PassDone(Interrupted(pass, n))
        /\ call' = [n |-> 0, op |-> "process_data", args |-> <<>>]
        /\ ret' = None
        /\ payload' = p
        /\ npass' = npass + 1
        /\ UNCHANGED <<last_data_hash, snapshot, nsnap, tick, scrape>>

Interrupt(p) ==
    /\ npass < MaxPasses
    /\ InterruptedIn(process_data(db, p), p)

NextCrash ==
    \/ \E p \in CrashPayloads : ProcessData(p)
    \/ \E p \in CrashPayloads : Interrupt(p)

SpecCrash == Init /\ [][NextCrash]_vars

----------------------------------------------------------------------------
(* Poll mode: the iterations of the loop of poll_and_process *)

\* the payloads the API hands back: those with at most one schedule item
PollPayloads == {p \in Payloads : Len(p.schedule) <= 1}

\* the variables one loop iteration leaves behind; payload is the latest
\* payload that was fetched, outcome that of the latest process_data call
Polled(it, data) ==
    /\ last_data_hash' = it.last_data_hash
    /\ db' = it.pass.db
    /\ ops' = it.pass.ops
    /\ outcome' = IF it.kind = "processed" THEN it.pass.outcome ELSE outcome
    /\ npass' = IF it.kind = "processed" THEN npass + 1 ELSE npass
    /\ snapshot' = it.snapshot
    /\ nsnap' = IF it.saved THEN nsnap + 1 ELSE nsnap
    /\ payload' = IF it.kind = "fetch_failed" THEN payload ELSE data
    /\ tick' = [n |-> tick.n + 1, kind |-> it.kind, saved |-> it.saved]
    /\ call' = [n |-> 0, op |-> "poll_and_process", args |-> <<>>]
    /\ ret' = None
    /\ UNCHANGED scrape

PollTick(data, save_ok) ==
    /\ tick.n < MaxTicks
    /\ tick.kind # "stopped"
    /\ Polled(poll_iteration(last_data_hash, db, snapshot, data, save_ok), data)

NextPoll == \E data \in PollPayloads \cup {FetchFailed}, save_ok \in BOOLEAN :
                PollTick(data, save_ok)

SpecPoll == Init /\ [][NextPoll]_vars

\* payloads for each way a pass can end: complete (with one result, with two,
\* with no schedule item, with another placement), ended by an exception
\* (a placement that is no integer), returned early (an event without name)
LivePayloads ==
    { BasePayload,
      [info |-> GoodInfo, schedule |-> <<>>],
      [info |-> GoodInfo,
       schedule |-> <<Item(BaseRace, BaseCategory, <<"M", "V">>, <<BaseResult, Lane2Result>>)>>],
      [info |-> GoodInfo,
       schedule |-> <<Item(BaseRace, BaseCategory, <<"M", "V">>,
                           <<Merge([placement |-> <<"2">>], BaseResult)>>)>>],
      [info |-> GoodInfo,
       schedule |-> <<Item(BaseRace, BaseCategory, <<"M", "V">>,
                           <<Merge([placement |-> <<"x">>], BaseResult), Lane2Result>>)>>],
      [info |-> Without(GoodInfo, "name"), schedule |-> <<BaseItem>>] }

NextPollLive == \E data \in LivePayloads \cup {FetchFailed}, save_ok \in BOOLEAN :
                    PollTick(data, save_ok)

\* the process keeps running and time.sleep returns: an iteration that can
\* start does start
SpecPollLive == Init /\ [][NextPollLive]_vars /\ WF_vars(NextPollLive)

----------------------------------------------------------------------------
(* HTML extraction (src/cc_scrape.py): the loop over the race headings.     *)
(* A heading is the text of an h4 element as get_text(strip=True) hands it  *)
(* over.  What the loop reads from other elements of the document (the      *)
(* flight in the next h5, the rows of the next table) is not part of the    *)
(* model: the entries carry cat_abrev, race, time, date and category.       *)

\* the text t stands in s at position i
StartsAt(s, i, t) == i + Len(t) - 1 <= Len(s) /\ SubSeq(s, i, i + Len(t) - 1) = t

\* s.index(c): the first position of c in s
FirstIndex(s, c) == CHOOSE i \in DOMAIN s : s[i] = c /\ \A k \in 1..(i - 1) : s[k] # c

\* re.sub(r"\](?=-)", "] ", s): a space after each "]" that a "-" follows
RECURSIVE SpaceAfterBracket(_)
SpaceAfterBracket(s) ==
    IF s = <<>> THEN <<>>
    ELSE IF Len(s) >= 2 /\ s[1] = "]" /\ s[2] = "-"
    THEN <<"]", " ">> \o SpaceAfterBracket(Tail(s))
    ELSE <<s[1]>> \o SpaceAfterBracket(Tail(s))

\* s.split(sep) for a text sep
RECURSIVE SplitOn(_, _)
SplitOn(s, sep) ==
    IF \E i \in 1..Len(s) : StartsAt(s, i, sep)
    THEN LET i == CHOOSE j \in 1..Len(s) :
                      StartsAt(s, j, sep) /\ \A k \in 1..(j - 1) : ~StartsAt(s, k, sep)
         IN  <<SubSeq(s, 1, i - 1)>> \o SplitOn(SubSeq(s, i + Len(sep), Len(s)), sep)
    ELSE <<s>>

\* s.strip(chars)
RECURSIVE StripChars(_, _)
StripChars(s, chars) ==
    IF s # <<>> /\ s[1] \in chars THEN StripChars(Tail(s), chars)
    ELSE IF s # <<>> /\ s[Len(s)] \in chars THEN StripChars(SubSeq(s, 1, Len(s) - 1), chars)
    ELSE s

\* s.strip()
Strip(s) == StripChars(s, {" "})

\* s.split(): the words of s
Words(s) == SelectSeq(Split(s, " "), LAMBDA w : w # <<>>)

\* s.zfill(2)
Zfill2(s) == IF Len(s) = 0 THEN <<"0", "0">> ELSE IF Len(s) = 1 THEN <<"0">> \o s ELSE s

\* the year of the event, "2024" when the event has no start date of three parts
EventYear(info) ==
    IF "start_date" \in DOMAIN info /\ Len(Split(info.start_date, "-")) = 3
    THEN Split(info.start_date, "-")[1]
    ELSE <<"2", "0", "2", "4">>

\* the token is a date in brackets, "[MM/DD]"
IsDateToken(token) ==
    /\ token # <<>>
    /\ token[1] = "["
    /\ token[Len(token)] = "]"
    /\ Len(Split(StripChars(token, {"[", "]"}), "/")) = 2

\* the date tokens among the words of the left part
DateTokens(left_parts) == SelectSeq(left_parts, IsDateToken)

\* race_day for a date token
RaceDay(info, token) ==
    With(Split(StripChars(token, {"[", "]"}), "/"), LAMBDA dparts :
        EventYear(info) \o <<"-">> \o Zfill2(dparts[1]) \o <<"-">> \o Zfill2(dparts[2]))

\* the number of the race: the first word of the left part without a final colon
RaceNum(word) == IF word[Len(word)] = ":" THEN SubSeq(word, 1, Len(word) - 1) ELSE word

\* race_data["race"], and the time and date keys of race_data, from the left part
left_part_data(info, left_parts) ==
    Merge(IF DateTokens(left_parts) # <<>>
          THEN With(DateTokens(left_parts)[Len(DateTokens(left_parts))], LAMBDA token :
                   [race |-> Present([race_num  |-> RaceNum(left_parts[1]),
                                      race_time |-> IF Len(left_parts) >= 3
                                                    THEN left_parts[2] \o <<" ">> \o left_parts[3]
                                                    ELSE Missing,
                                      race_day  |-> RaceDay(info, token)]),
                    date |-> StripChars(token, {"[", "]"})])
          ELSE [race |-> IF left_parts = <<>> THEN <<>>
                         ELSE Present([race_num  |-> RaceNum(left_parts[1]),
                                       race_time |-> IF Len(left_parts) >= 3
                                                     THEN left_parts[2] \o <<" ">> \o left_parts[3]
                                                     ELSE Missing])],
          IF Len(left_parts) >= 3
          THEN [time |-> left_parts[2] \o <<" ">> \o left_parts[3]]
          ELSE <<>>)

\* the category part has an opening and a closing parenthesis
Parenthesized(category_part) == Contains(category_part, "(") /\ Contains(category_part, ")")

\* cat_abrev and cat_name as the loop takes them from the category part
CatAbrev(category_part) ==
    IF Parenthesized(category_part)
    THEN Strip(SubSeq(category_part, FirstIndex(category_part, "(") + 1,
                      FirstIndex(category_part, ")") - 1))
    ELSE None

CatName(category_part) ==
    IF Parenthesized(category_part)
    THEN Strip(SubSeq(category_part, 1, FirstIndex(category_part, "(") - 1))
    ELSE category_part

\* the body of the loop from the category part on: the entry race_data, and
\* whether the body appended it, dropped it, or died of the KeyError of
\* race_data["category"]["name"] on the empty dict
heading_after_split(info, left_part, category_part) ==
    With(CatAbrev(category_part), LAMBDA cat_abrev :
    With(CatName(category_part), LAMBDA cat_name :
    With(Merge([cat_abrev |-> IF ~Falsy(cat_abrev) THEN cat_abrev ELSE cat_name,
                category  |-> IF cat_name # <<>> THEN [name |-> Strip(cat_name)] ELSE <<>>],
               left_part_data(info, Words(left_part))), LAMBDA race_data :
        IF cat_name = <<>> THEN [kind |-> "raised", race_data |-> race_data]
        ELSE IF race_data.cat_abrev # <<>> THEN [kind |-> "appended", race_data |-> race_data]
        ELSE [kind |-> "dropped", race_data |-> race_data])))

\* the body of `for i, header in enumerate(race_headers, start=1)`
scrape_heading(info, header_text) ==
    With(SplitOn(SpaceAfterBracket(header_text), <<" ", "-", " ">>), LAMBDA parts :
        IF Len(parts) < 2 THEN [kind |-> "not_split", race_data |-> <<>>]
        ELSE heading_after_split(info, parts[1], parts[2]))

\* how many headings a document has at most
MaxHeadings == 2

\* the texts of the headings
HeadingTexts ==
    { \* "1: 7:30 AM [3/9] - Men (M)"
      <<"1", ":", " ", "7", ":", "3", "0", " ", "A", "M", " ", "[", "3", "/", "9", "]",
        " ", "-", " ", "M", "e", "n", " ", "(", "M", ")">>,
      \* "2 - Men"
      <<"2", " ", "-", " ", "M", "e", "n">>,
      \* "3 - (M)"
      <<"3", " ", "-", " ", "(", "M", ")">>,
      \* "4 -  - x": the category part is empty
      <<"4", " ", "-", " ", " ", "-", " ", "x">>,
      \* "5 - ()"
      <<"5", " ", "-", " ", "(", ")">>,
      \* "6 - Men ()"
      <<"6", " ", "-", " ", "M", "e", "n", " ", "(", ")">>,
      \* "Men": no separator
      <<"M", "e", "n">>,
      \* "[3/9]- Men ( M )"
      <<"[", "3", "/", "9", "]", "-", " ", "M", "e", "n", " ", "(", " ", "M", " ", ")">>,
      \* "9 - Men  - x": the category part ends with a space
      <<"9", " ", "-", " ", "M", "e", "n", " ", " ", "-", " ", "x">> }

\* the documents: up to MaxHeadings headings
Documents == UNION { [1..n -> HeadingTexts] : n \in 0..MaxHeadings }

\* info as the extraction of the event heading leaves it
ScrapedInfos == { [name |-> EventName],
                  [name |-> EventName,
                   start_date |-> <<"2", "0", "2", "5", "-", "0", "3", "-", "0", "9">>] }

InitScrape ==
    /\ db = EmptyStore
    /\ call = NoCall
    /\ ret = None
    /\ ops = <<>>
    /\ payload = NoPayload
    /\ outcome = "none"
    /\ npass = 0
    /\ last_data_hash = None
    /\ snapshot = NoPayload
    /\ nsnap = 0
    /\ tick = NoTick
    /\ \E info \in ScrapedInfos, headers \in Documents :
           scrape = [info |-> info, headers |-> headers, next |-> 1, schedule |-> <<>>,
                     status |-> "running"]

\* the state of the extraction after the body of the loop did h
Scraped(h) ==
    [scrape EXCEPT !.next = @ + 1,
                   !.schedule = IF h.kind = "appended" THEN Append(@, h.race_data) ELSE @,
                   !.status = IF h.kind = "raised" THEN "raised" ELSE @]

\* one iteration of the loop over the headings
ScrapeHeading ==
    /\ scrape.status = "running"
    /\ scrape.next <= Len(scrape.headers)
    /\ scrape' = Scraped(scrape_heading(scrape.info, scrape.headers[scrape.next]))
    /\ UNCHANGED <<db, call, ret, ops, payload, outcome, npass, last_data_hash, snapshot,
                   nsnap, tick>>

\* after the loop: output.json is written with info and schedule
WriteOutput ==
    /\ scrape.status = "running"
    /\ scrape.next > Len(scrape.headers)
    /\ scrape' = [scrape EXCEPT !.status = "written"]
    /\ UNCHANGED <<db, call, ret, ops, payload, outcome, npass, last_data_hash, snapshot,
                   nsnap, tick>>

NextScrape == ScrapeHeading \/ WriteOutput

SpecScrape == InitScrape /\ [][NextScrape]_vars

----------------------------------------------------------------------------
(* The temporal normalizer called on its own *)

\* how long the texts handed to convert_time_to_ms are at most
MaxTimeLen == 4

TimeChars == {"0", "1", ":", ".", "-"}

\* the texts of at most MaxTimeLen characters
ShortTexts == UNION { [1..n -> TimeChars] : n \in 0..MaxTimeLen }

\* the inputs: None, the short texts, and the short texts after "1:1"
TimeStrings == {None} \cup ShortTexts \cup { <<"1", ":", "1">> \o s : s \in ShortTexts }

\* a text is at hand, convert_time_to_ms has not been called on it yet
InitTime ==
    /\ db = EmptyStore
    /\ \E time_str \in TimeStrings : call = [n |-> 0, op |-> "none", args |-> <<time_str>>]
    /\ ret = None
    /\ ops = <<>>
    /\ payload = NoPayload
    /\ outcome = "none"
    /\ npass = 0
    /\ last_data_hash = None
    /\ snapshot = NoPayload
    /\ nsnap = 0
    /\ tick = NoTick
    /\ scrape = NoScrape

ConvertTime ==
    /\ call.op = "none"
    /\ call' = [n |-> 1, op |-> "convert_time_to_ms", args |-> call.args]
    /\ ret' = convert_time_to_ms(call.args[1])
    /\ UNCHANGED <<db, ops, payload, outcome, npass, last_data_hash, snapshot, nsnap, tick,
                   scrape>>

NextTime == ConvertTime

SpecTime == InitTime /\ [][NextTime]_vars

----------------------------------------------------------------------------
(* The fingerprint generator called on its own *)

\* event names: with a space, with capitals, a single word, the empty text
FingerprintNames == { EventName, <<"R", "e", "g">>, <<"a">>, <<>> }

\* schedule items: each of race day, race number, category abbreviation and
\* race abbreviation missing, null, the empty text, or given (the day and the
\* number as a text or as a number)
FingerprintItems ==
    { Merge([race |-> Present([race_day |-> d, race_num |-> n])],
            Present([cat_abrev |-> c, race_abrev |-> r])) :
          d \in {Missing, None, <<>>, <<"5">>, MkInt(5)},
          n \in {Missing, None, <<>>, <<"1">>, MkInt(1)},
          c \in {Missing, None, <<>>, <<"M", "V">>},
          r \in {Missing, None, <<>>, <<"F", "a">>} }

\* an event name and a schedule item are at hand, generate_race_fingerprint
\* has not been called on them yet
InitFingerprint ==
    /\ db = EmptyStore
    /\ \E event_name \in FingerprintNames, schedule_item \in FingerprintItems :
           call = [n |-> 0, op |-> "none", args |-> <<event_name, schedule_item>>]
    /\ ret = None
    /\ ops = <<>>
    /\ payload = NoPayload
    /\ outcome = "none"
    /\ npass = 0
    /\ last_data_hash = None
    /\ snapshot = NoPayload
    /\ nsnap = 0
    /\ tick = NoTick
    /\ scrape = NoScrape

\* the fingerprint generated as process_data does it: from the event name,
\* the race of the schedule item, and the schedule item
GenerateRaceFingerprint ==
    /\ call.op = "none"
    /\ call' = [n |-> 1, op |-> "generate_race_fingerprint", args |-> call.args]
    /\ ret' = generate_race_fingerprint(call.args[1], race_data_of(call.args[2]), call.args[2])
    /\ UNCHANGED <<db, ops, payload, outcome, npass, last_data_hash, snapshot, nsnap, tick,
                   scrape>>

NextFingerprint == GenerateRaceFingerprint

SpecFingerprint == InitFingerprint /\ [][NextFingerprint]_vars

----------------------------------------------------------------------------
(* Properties *)

\* the row of table t with the given id
Row(store, t, id) == store[t][CHOOSE i \in DOMAIN store[t] : store[t][i].id = id]

\* the step is a resolver call / a poll iteration / a synchronization pass
ResolverStep == call'.n = call.n + 1

PollStep == tick'.n = tick.n + 1

PassStep == npass' = npass + 1

\* C1: a second process_data pass over the same payload, right after a
\* completed first pass on the empty store, inserts no row in any table.
C1_RepeatedPassInsertsNothing ==
    [][(PassStep /\ npass = 1 /\ outcome = "complete" /\ payload' = payload)
           => RowCounts(db') = RowCounts(db)]_vars

\* the natural key of a competitor dict
CompetitorKey(competitor_data) ==
    <<Get(competitor_data, "name_long"), Get(competitor_data, "designation")>>

\* C2: get_or_create_competitor called twice in a row with the same natural
\* key (name_long, designation) returns the same id both times, and the
\* second call inserts no competitor row.
C2_SameKeySameCompetitor ==
    [][(/\ ResolverStep
        /\ call.op = "get_or_create_competitor"
        /\ call'.op = "get_or_create_competitor"
        /\ CompetitorKey(call'.args[1]) = CompetitorKey(call.args[1]))
           => (ret' = ret /\ Len(db'.competitor) = Len(db.competitor))]_vars

\* C3: the row whose id get_or_create_competitor returns was stored with the
\* designation of the lookup: a missing designation, "" and each non-empty
\* designation are distinct identities.
C3_DesignationsAreDistinct ==
    (call.op = "get_or_create_competitor" /\ ret # None)
        => Row(db, "competitor", ret).designation = Get(call.args[1], "designation")

\* C4: the baseline hash is replaced only by a poll iteration whose pass ran
\* over the whole tree, and so a fetched payload is skipped as unchanged only
\* when the pass that set the baseline completed.
C4_BaselineOnlyAfterCompletePass ==
    [][PollStep => /\ last_data_hash' # last_data_hash => outcome' = "complete"
                   /\ tick'.kind = "unchanged" => outcome = "complete"]_vars

\* C5: a poll iteration that fetched a payload whose hash equals the baseline
\* issues no store operation, leaves the store as it is and writes no
\* snapshot; a pass runs only when the hash differs from the baseline (or
\* there is no baseline yet).
C5_UnchangedPayloadWritesNothing ==
    [][PollStep =>
          /\ (tick'.kind # "fetch_failed" /\ calculate_data_hash(payload') = last_data_hash)
                 => (/\ ops' = <<>>
                     /\ db' = db
                     /\ npass' = npass
                     /\ snapshot' = snapshot
                     /\ nsnap' = nsnap)
          /\ npass' # npass => calculate_data_hash(payload') # last_data_hash]_vars

\* a second fetch of a payload that a complete pass has written to the store
\* was skipped as unchanged
C5_Witness ==
    /\ tick.n = 2
    /\ tick.kind = "unchanged"
    /\ outcome = "complete"
    /\ npass = 1
    /\ Len(db.result) > 0
    /\ last_data_hash = calculate_data_hash(payload)

\* a schedule item / a result that has its required keys
KeyedItem(schedule_item) ==
    /\ ~Falsy(Get(GetDefault(schedule_item, "race", <<>>), "race_num"))
    /\ ~Falsy(Get(GetDefault(schedule_item, "category", <<>>), "name"))

NamedResult(result) == ~Falsy(Get(GetDefault(result, "competitor", <<>>), "name_long"))

KeyedResult(result) == NamedResult(result) /\ ~Falsy(Get(result, "lane_boat_number"))

\* the positions in the payload of the items and of the results that have
\* their required keys
KeyedItems(p) == {i \in DOMAIN p.schedule : KeyedItem(p.schedule[i])}

ResultsOfKeyedItems(p, Keep(_)) ==
    UNION { { <<i, j>> : j \in {k \in DOMAIN GetDefault(p.schedule[i], "results", <<>>) :
                                   Keep(p.schedule[i].results[k])} }
            : i \in KeyedItems(p) }

\* C6: a malformed field value (an unparseable time, a placement that is no
\* integer) never ends the pass: every result that has its keys, in every
\* item that has its keys, is in the store after the pass, with its well-formed
\* fields.
C6_MalformedFieldNeverAborts ==
    (call.op = "process_data" /\ outcome # "early")
        => /\ outcome = "complete"
           /\ \A ij \in ResultsOfKeyedItems(payload, KeyedResult) :
                  LET result == payload.schedule[ij[1]].results[ij[2]]
                  IN  \E k \in DOMAIN db.result :
                          /\ db.result[k].lane_boat_number = result.lane_boat_number
                          /\ "remark" \in DOMAIN result => db.result[k].remark = result.remark

\* the number of inserts and updates to table t in a log of store operations
Writes(o, t) == Cardinality({i \in DOMAIN o : o[i].table = t /\ o[i].op # "select"})

\* C7: a record without a required key is skipped as a whole and its siblings
\* are processed: a complete pass writes one race row per schedule item that
\* has its keys and none for the others, one result row per result that has
\* its keys and none for the others, and no schedule or competitor row for a
\* record without keys.
C7_SkippedRecordWritesNothing ==
    (call.op = "process_data" /\ outcome = "complete")
        => /\ Writes(ops, "race") = Cardinality(KeyedItems(payload))
           /\ Writes(ops, "schedule") <= Cardinality(KeyedItems(payload))
           /\ Writes(ops, "category") <= Cardinality(KeyedItems(payload))
           /\ Writes(ops, "result") = Cardinality(ResultsOfKeyedItems(payload, KeyedResult))
           /\ Writes(ops, "competitor")
                  <= Cardinality(ResultsOfKeyedItems(payload, NamedResult))

\* the call c of a resolver lacks the required key field of the resolver
MissingKey(c) ==
    \/ c.op = "get_or_create_competitor" /\ Falsy(Get(c.args[1], "name_long"))
    \/ c.op = "get_or_create_category" /\ Falsy(Get(c.args[1], "name"))
    \/ c.op = "upsert_event"
           /\ (Falsy(Get(c.args[1], "name")) \/ Falsy(Get(c.args[1], "start_date")))
    \/ c.op = "upsert_race" /\ Falsy(Get(race_data_of(c.args[1]), "race_num"))
    \/ c.op = "upsert_result" /\ Falsy(Get(c.args[1], "lane_boat_number"))

\* C8: a resolver called without its required key field returns None, issues
\* no store operation and leaves the store unchanged.
C8_MissingKeySkips ==
    [][(ResolverStep /\ MissingKey(call'))
           => (ret' = None /\ ops' = <<>> /\ db' = db)]_vars

\* upsert_race was called without race number, on a store that has races
C8_Witness ==
    /\ call.op = "upsert_race"
    /\ MissingKey(call)
    /\ ret = None
    /\ Len(db.race) > 0

\* the table a resolver works on
TableOf ==
    [get_or_create_competitor |-> "competitor", get_or_create_category |-> "category",
     upsert_event |-> "event", upsert_race |-> "race", upsert_schedule |-> "schedule",
     upsert_result |-> "result"]

\* the row has, in each of the columns, the value the dict has (null when the
\* dict lacks the key)
FieldsEqual(row, data, columns) == \A k \in columns : row[k] = Get(data, k)

\* the stored row carries the non-key fields of the payload of the call c
CarriesPayload(row, c) ==
    \/ c.op = "get_or_create_competitor"
           /\ FieldsEqual(row, c.args[1], {"name_short", "external_id"})
    \/ c.op = "get_or_create_category"
           /\ FieldsEqual(row, c.args[1], {"title", "course_length"})
    \/ c.op = "upsert_event"
           /\ FieldsEqual(row, c.args[1], {"location"})
           /\ row.end_date = IF Falsy(Get(c.args[1], "end_date"))
                             THEN c.args[1].start_date ELSE c.args[1].end_date
    \/ c.op = "upsert_race"
           /\ FieldsEqual(row, race_data_of(c.args[1]),
                          {"race_num", "race_day", "race_time", "sub_type"})
    \/ c.op = "upsert_result"
           /\ FieldsEqual(row, c.args[1],
                          Columns.result \ {"id", "schedule_id", "lane_boat_number"})

\* C9: a resolver of event, category, competitor, race or result whose lookup
\* finds an existing row returns the id of that row, and the stored row then
\* carries the non-key fields of the current payload.
C9_FoundRowIsOverwritten ==
    [][(/\ ResolverStep
        /\ call'.op # "upsert_schedule"
        /\ ret' \in Ids(db, TableOf[call'.op]))
           => CarriesPayload(Row(db', TableOf[call'.op], ret'), call')]_vars

\* the four components of the fingerprint that come from the schedule item
ItemComponents(schedule_item) ==
    <<GetDefault(race_data_of(schedule_item), "race_day", Missing),
      GetDefault(race_data_of(schedule_item), "race_num", Missing),
      GetDefault(schedule_item, "cat_abrev", Missing),
      GetDefault(schedule_item, "race_abrev", Missing)>>

FingerprintOf(schedule_item) ==
    generate_race_fingerprint(EventName, race_data_of(schedule_item), schedule_item)

\* two races of one event resolved one after the other, each to a row
TwoRacesResolved ==
    /\ ResolverStep
    /\ call.op = "upsert_race"
    /\ call'.op = "upsert_race"
    /\ ret # None
    /\ ret' # None

\* the second race got a fingerprint and a row of its own, and the row of the
\* first is as it was
DistinctRaceRows ==
    /\ FingerprintOf(call'.args[1]) # FingerprintOf(call.args[1])
    /\ ret' # ret
    /\ Row(db', "race", ret) = Row(db, "race", ret)

SameRaceRow ==
    /\ FingerprintOf(call'.args[1]) = FingerprintOf(call.args[1])
    /\ ret' = ret

PlainComponents(schedule_item) ==
    \A i \in 1..4 : LET c == ItemComponents(schedule_item)[i]
                    IN  c # Missing /\ c # None /\ c # <<>> /\ ~Contains(c, "_")

LowerComponents(schedule_item) == [i \in 1..4 |-> Lower(ItemComponents(schedule_item)[i])]

ValueFields == {"placement", "start_time", "finish_time", "raw_time", "total_time",
                "adjustment", "handicap", "remark", "notes"}

\* the fields in which two results with the same keys differ
ChangedFields(r, q) == {f \in DOMAIN r : r[f] # q[f]}

\* the results differ in exactly one field, a value field
OneFieldChanged(r, q) ==
    /\ DOMAIN r = DOMAIN q
    /\ Cardinality(ChangedFields(r, q)) = 1
    /\ ChangedFields(r, q) \subseteq ValueFields

\* the lists of results differ in exactly one field of the result at j
OneResultChanged(rs, qs, j) ==
    /\ Len(rs) = Len(qs)
    /\ j \in DOMAIN rs
    /\ \A i \in DOMAIN rs : i # j => rs[i] = qs[i]
    /\ OneFieldChanged(rs[j], qs[j])

\* the payloads differ in exactly one field of the result j of the item k
OneChange(p, q, k, j) ==
    /\ p # NoPayload
    /\ p.info = q.info
    /\ Len(p.schedule) = Len(q.schedule)
    /\ k \in DOMAIN p.schedule
    /\ \A i \in DOMAIN p.schedule : i # k => p.schedule[i] = q.schedule[i]
    /\ Without(p.schedule[k], "results") = Without(q.schedule[k], "results")
    /\ OneResultChanged(p.schedule[k].results, q.schedule[k].results, j)

\* the positions of the result rows whose content differs between two stores
ChangedResultRows(old, new) ==
    {i \in DOMAIN old.result : new.result[i] # old.result[i]}

\* the pass changed the content of one result row, the one of the given lane,
\* and nothing else: no row was inserted and every other row is as it was
OnlyResultRowChanged(old, new, lane) ==
    /\ RowCounts(new) = RowCounts(old)
    /\ \A t \in Tables \ {"result"} : new[t] = old[t]
    /\ \E i \in DOMAIN old.result :
           /\ ChangedResultRows(old, new) = {i}
           /\ old.result[i].lane_boat_number = lane

\* C11: a pass over a payload that differs from the payload of the completed
\* pass before it in exactly one field of one result changes the content of
\* exactly that result row; every other row of every table keeps its content
\* and id, and no row is inserted.
C11_OneFieldChangesOneRow ==
    [][(PassStep /\ outcome = "complete")
           => \A k \in 1..MaxItems, j \in 1..2 :
                  OneChange(payload, payload', k, j)
                      => OnlyResultRowChanged(db, db',
                             payload.schedule[k].results[j].lane_boat_number)]_vars

\* the (event, race, category) triple of a schedule row
ScheduleKey(row) == <<row.event_id, row.race_id, row.category_id>>

\* C12: after any sequence of passes the schedule table has at most one row
\* per (event_id, race_id, category_id), and upsert_schedule called with the
\* triple of a row returns the id of that row and inserts nothing.
C12_ScheduleUniquePerTriple ==
    call.op = "process_data"
        => /\ \A i, j \in DOMAIN db.schedule :
                  ScheduleKey(db.schedule[i]) = ScheduleKey(db.schedule[j]) => i = j
           /\ \A i \in DOMAIN db.schedule :
                  With(upsert_schedule(db, db.schedule[i].event_id, db.schedule[i].race_id,
                                       db.schedule[i].category_id),
                       LAMBDA s : s.ret = db.schedule[i].id /\ s.db = db)

\* a second pass found the schedule rows of two races and inserted none
C12_Witness ==
    /\ npass = 2
    /\ outcome = "complete"
    /\ Len(db.schedule) = 2
    /\ Writes(ops, "schedule") = 0
    /\ Cardinality({i \in DOMAIN ops : ops[i].table = "schedule"}) = 2

\* the (schedule, lane / boat number) pair of a result row
ResultKey(row) == <<row.schedule_id, row.lane_boat_number>>

\* C13: after any sequence of passes the result table has at most one row per
\* (schedule_id, lane_boat_number), also when a schedule item lists a lane
\* more than once.
C13_ResultUniquePerLane ==
    call.op = "process_data"
        => \A i, j \in DOMAIN db.result :
               ResultKey(db.result[i]) = ResultKey(db.result[j]) => i = j

\* the lanes the results of a schedule item name, in order
LanesOf(schedule_item) ==
    [j \in DOMAIN GetDefault(schedule_item, "results", <<>>) |->
         Get(schedule_item.results[j], "lane_boat_number")]

\* a complete pass over an item that lists lane 1 twice wrote both results
\* to one row, which carries the placement of the second
C13_Witness ==
    /\ call.op = "process_data"
    /\ outcome = "complete"
    /\ \E k \in DOMAIN payload.schedule : LanesOf(payload.schedule[k]) = <<<<"1">>, <<"1">>>>
    /\ Writes(ops, "result") >= 2
    /\ Len(db.result) = 1
    /\ db.result[1].placement = MkInt(3)

\* a row without its id
Content(row) == Without(row, "id")

\* a row with the rows it refers to in the place of their ids
Denormal(store, t, row) ==
    IF t = "schedule"
    THEN [event    |-> Content(Row(store, "event", row.event_id)),
          race     |-> Content(Row(store, "race", row.race_id)),
          category |-> Content(Row(store, "category", row.category_id))]
    ELSE IF t = "result"
    THEN [fields     |-> Without(Without(Content(row), "schedule_id"), "competitor_id"),
          competitor |-> Content(Row(store, "competitor", row.competitor_id)),
          schedule   |-> With(Row(store, "schedule", row.schedule_id), LAMBDA s :
                             [event    |-> Content(Row(store, "event", s.event_id)),
                              race     |-> Content(Row(store, "race", s.race_id)),
                              category |-> Content(Row(store, "category", s.category_id))])]
    ELSE Content(row)

\* how many rows of table t have the content c
CountOf(store, t, c) ==
    Cardinality({i \in DOMAIN store[t] : Denormal(store, t, store[t][i]) = c})

\* the two stores have the same content up to the ids: each table holds the
\* same rows, as often, once every id is replaced by the row it names
SameContent(a, b) ==
    \A t \in Tables :
        /\ Len(a[t]) = Len(b[t])
        /\ \A i \in DOMAIN a[t] :
               With(Denormal(a, t, a[t][i]), LAMBDA c : CountOf(a, t, c) = CountOf(b, t, c))

\* the pass that was cut short, run again on the store it left, and the same
\* pass run once on the store it started from, both to completion, leave the
\* same content
Converges(start, crashed, p) ==
    With(process_data(crashed, p), LAMBDA again :
    With(process_data(start, p), LAMBDA once :
        (again.outcome = "complete" /\ once.outcome = "complete")
            => SameContent(again.db, once.db)))

\* C14: when a pass is interrupted after any number of its store operations,
\* running process_data again on the same payload to completion leaves the
\* store with the content, up to ids, that one uninterrupted pass over the
\* payload leaves from the store the interrupted pass started from.
C14_RerunAfterCrashConverges ==
    [][(PassStep /\ outcome' = "interrupted") => Converges(db, db', payload')]_vars

\* every row of the old store is in the new one, at its place and under its id
RowsKept(old, new) ==
    \A t \in Tables :
        /\ Ids(old, t) \subseteq Ids(new, t)
        /\ Len(old[t]) <= Len(new[t])
        /\ \A i \in DOMAIN old[t] : new[t][i].id = old[t][i].id

\* C15: no step of the pipeline removes a row: the ids of each table only
\* grow, and the store operations of a pass are selects, inserts and updates.
C15_RowsAreNeverRemoved ==
    [][/\ RowsKept(db, db')
       /\ \A i \in DOMAIN ops' : ops'[i].op \in {"select", "insert", "update"}]_vars

\* the second poll iteration ran a pass that updated rows of the first and
\* inserted others
C15_Witness ==
    /\ tick.n = 2
    /\ tick.kind = "processed"
    /\ npass = 2
    /\ \E i \in DOMAIN ops : ops[i].op = "update"
    /\ \E i \in DOMAIN ops : ops[i].op = "insert"
    /\ Len(db.result) >= 2

\* C16: a poll iteration whose fetch fails issues no store operation, runs no
\* pass, writes no snapshot and leaves the baseline hash as it is; the payload
\* of the next successful fetch is compared against that baseline.
C16_FailedFetchChangesNothing ==
    [][PollStep =>
          /\ tick'.kind = "fetch_failed"
                 => (/\ ops' = <<>>
                     /\ db' = db
                     /\ npass' = npass
                     /\ snapshot' = snapshot
                     /\ nsnap' = nsnap
                     /\ last_data_hash' = last_data_hash)
          /\ (tick.kind = "fetch_failed" /\ tick'.kind # "fetch_failed")
                 => (tick'.kind = "unchanged" <=> calculate_data_hash(payload') = last_data_hash)]_vars

\* the fetch failed after a pass had written a payload to the store: the
\* baseline is still the hash of that payload
C16_Witness ==
    /\ tick.n = 2
    /\ tick.kind = "fetch_failed"
    /\ npass = 1
    /\ nsnap = 1
    /\ Len(db.result) > 0
    /\ last_data_hash = calculate_data_hash(payload)

\* the step is an iteration of the loop over the headings
ScrapeStep == scrape'.next = scrape.next + 1

\* the parts of a heading around " - "
HeadingParts(header_text) == SplitOn(SpaceAfterBracket(header_text), <<" ", "-", " ">>)

\* the heading has a category part with no abbreviation in parentheses and
\* an empty category name
NoUsableAbbrev(header_text) ==
    With(HeadingParts(header_text), LAMBDA parts :
        /\ Len(parts) >= 2
        /\ Falsy(CatAbrev(parts[2]))
        /\ Strip(CatName(parts[2])) = <<>>)

\* the abbreviation in parentheses when there is one, the category name otherwise
AbrevOrName(header_text) ==
    With(HeadingParts(header_text)[2], LAMBDA category_part :
        IF ~Falsy(CatAbrev(category_part)) THEN CatAbrev(category_part)
        ELSE CatName(category_part))

\* C17: a heading without usable abbreviation adds no entry to the schedule
\* and the extraction goes on after it; an entry that a heading adds has a
\* non-empty cat_abrev, the abbreviation in parentheses when there is one and
\* the category name otherwise.
C17_HeadingWithoutAbrevIsLeftOut ==
    [][ScrapeStep =>
          /\ NoUsableAbbrev(scrape.headers[scrape.next])
                 => (scrape'.schedule = scrape.schedule /\ scrape'.status = "running")
          /\ scrape'.schedule # scrape.schedule
                 => (/\ scrape'.schedule[Len(scrape'.schedule)].cat_abrev # <<>>
                     /\ scrape'.schedule[Len(scrape'.schedule)].cat_abrev
                            = AbrevOrName(scrape.headers[scrape.next]))]_vars

\* the text has the shape MM:SS or MM:SS.mmm: one or two digits of minutes,
\* two digits of seconds, and at most three digits of milliseconds
IsDuration(s) ==
    /\ s # None
    /\ Len(Split(s, ":")) = 2
    /\ With(Split(s, ":"), LAMBDA parts :
           /\ Len(parts[1]) \in {1, 2} /\ AllDigits(parts[1])
           /\ With(Split(parts[2], "."), LAMBDA sec :
                  /\ Len(sec) \in {1, 2}
                  /\ Len(sec[1]) = 2 /\ AllDigits(sec[1])
                  /\ Len(sec) = 2 => (Len(sec[2]) \in 1..3 /\ AllDigits(sec[2]))))

\* minutes * 60000 + seconds * 1000 + milliseconds of a text of that shape
ElapsedMillis(s) ==
    With(Split(s, ":"), LAMBDA parts :
    With(Split(parts[2], "."), LAMBDA sec :
        NatOf(parts[1]) * 60000 + NatOf(sec[1]) * 1000
            + (IF Len(sec) = 2 THEN NatOf(SubSeq(sec[2] \o <<"0", "0">>, 1, 3)) ELSE 0)))

\* the text is, loosely, minutes and seconds: two groups of digits around one
\* colon, the second with at most one point in it
DigitsAroundColon(s) ==
    /\ s # None
    /\ Len(Split(s, ":")) = 2
    /\ \A i \in DOMAIN s : s[i] \in DigitSet \cup {":", "."}
    /\ Len(Split(Split(s, ":")[2], ".")) <= 2

\* C18: convert_time_to_ms returns the elapsed milliseconds for a text of
\* the shape MM:SS or MM:SS.mmm and None for a text that is not minutes and
\* seconds around a colon, and never a negative number.
C18_DurationsOnlyAndNonNegative ==
    call.op = "convert_time_to_ms"
        => /\ IsDuration(call.args[1]) => ret = MkInt(ElapsedMillis(call.args[1]))
           /\ ~DigitsAroundColon(call.args[1]) => ret = None
           /\ ret # None => ret[2] >= 0

\* C19: the poll loop does not stop by itself: whatever the fetch, the pass
\* and the snapshot write of an iteration did, the iteration is followed by
\* another one (up to the MaxTicks iterations of a behaviour).
C19_EveryTickIsFollowedByAnother ==
    \A k \in 0..(MaxTicks - 1) : (tick.n = k) ~> (tick.n = k + 1)

\* the loop went on after an iteration whose snapshot write failed and whose
\* pass raised an exception, and after an iteration whose fetch failed
C19_Witness ==
    /\ tick.n = MaxTicks
    /\ tick.kind = "fetch_failed"
    /\ outcome = "raised"
    /\ npass = 1
    /\ nsnap = 0

\* the last result of the last schedule item of a payload: the one the last
\* store operation of a complete pass writes
LastItem(p) == p.schedule[Len(p.schedule)]

LastResult(p) == LastItem(p).results[Len(LastItem(p).results)]

\* the pass ended with upsert_result updating the row it found for the last
\* result of the payload
LastResultUpdated ==
    /\ call.op = "process_data"
    /\ outcome = "complete"
    /\ payload.schedule # <<>>
    /\ KeyedItem(LastItem(payload))
    /\ GetDefault(LastItem(payload), "results", <<>>) # <<>>
    /\ KeyedResult(LastResult(payload))
    /\ ops[Len(ops)].op = "update"
    /\ ops[Len(ops)].table = "result"

\* the field of the result is missing, or its text cannot be parsed
AbsentOrUnparseable(result, f) ==
    \/ f \notin DOMAIN result
    \/ f \in {"start_time", "finish_time", "raw_time"} /\ format_race_time(result[f]) = None
    \/ f = "total_time" /\ convert_time_to_ms(result[f]) = None

\* C20: after upsert_result has updated the row it found, a field that is
\* absent or unparseable in the result of the payload is null in the row: the
\* row does not keep the value an earlier pass wrote.
C20_AbsentFieldIsStoredAbsent ==
    LastResultUpdated
        => \A f \in ValueFields :
               AbsentOrUnparseable(LastResult(payload), f)
                   => Row(db, "result", ops[Len(ops)].id)[f] = None

\* the positions of the log where the handling of a schedule item starts: the
\* lookups of a race
ItemStarts(o) == {i \in DOMAIN o : o[i].table = "race" /\ o[i].op = "select"}

\* where the k-th item starts in the log, and where it ends
StartOf(o, k) == CHOOSE i \in ItemStarts(o) : Cardinality({j \in ItemStarts(o) : j < i}) = k - 1

EndOf(o, k) == IF k = Cardinality(ItemStarts(o)) THEN Len(o) ELSE StartOf(o, k + 1) - 1

\* the store operations of the k-th item
Segment(o, k) == SubSeq(o, StartOf(o, k), EndOf(o, k))

\* the schedule items a pass handles: those whose race has a number
NumberedItems(p) ==
    SelectSeq(p.schedule,
              LAMBDA it : ~Falsy(Get(GetDefault(it, "race", <<>>), "race_num")))

\* the place of a table in the order race, category, schedule, results
Rank ==
    [event |-> 0, race |-> 1, category |-> 2, schedule |-> 3, competitor |-> 4, result |-> 4]

\* the lanes of the result rows a pass is to write for an item, in array
\* order, and the lanes of the result rows written in a piece of the log
LanesDue(schedule_item) ==
    IF ~KeyedItem(schedule_item) THEN <<>>
    ELSE With(SelectSeq(GetDefault(schedule_item, "results", <<>>), KeyedResult),
              LAMBDA rs : [i \in DOMAIN rs |-> rs[i].lane_boat_number])

LanesWritten(seg) ==
    With(SelectSeq(seg, LAMBDA e : e.table = "result" /\ e.op # "select"),
         LAMBDA ws : [i \in DOMAIN ws |-> ws[i].data.lane_boat_number])

IsPrefix(a, b) == Len(a) <= Len(b) /\ a = SubSeq(b, 1, Len(a))

\* the piece seg of the log is the handling of schedule_item: the race first
\* (its lookup, then its write, carrying the item's race), then the category,
\* then the schedule, then the results in array order, each competitor
\* before its result row; whole: the pass did not end inside the item
InItemOrder(seg, schedule_item, whole) ==
    /\ Len(seg) >= 2
    /\ seg[2].table = "race" /\ seg[2].op # "select"
    /\ \A f \in DOMAIN race_data_of(schedule_item) : seg[2].data[f] = schedule_item.race[f]
    /\ \A i, j \in DOMAIN seg : i < j => Rank[seg[i].table] <= Rank[seg[j].table]
    /\ \A i \in DOMAIN seg :
           seg[i].table = "result"
           => IF seg[i].op = "select"
              THEN seg[i - 1].table = "competitor"
              ELSE seg[i - 1].table = "result" /\ seg[i - 1].op = "select"
    /\ IsPrefix(LanesWritten(seg), LanesDue(schedule_item))
    /\ whole => LanesWritten(seg) = LanesDue(schedule_item)

\* C21: within one synchronization pass the store operations follow the
\* payload order: the event is resolved first, the operations of the item
\* i precede those of every item j > i, and within an item the order is
\* race, category, schedule, then for each result in array order its
\* competitor followed by its result row
C21_OperationsFollowPayloadOrder ==
    (npass > 0 /\ outcome # "early")
    => /\ Len(ops) >= 2
       /\ \A i \in DOMAIN ops : ops[i].table = "event" <=> i <= 2
       /\ \A i \in ItemStarts(ops) : i >= 3
       /\ ItemStarts(ops) # {} => 3 \in ItemStarts(ops)
       /\ ItemStarts(ops) = {} => Len(ops) = 2
       /\ Cardinality(ItemStarts(ops)) <= Len(NumberedItems(payload))
       /\ outcome = "complete" => Cardinality(ItemStarts(ops)) = Len(NumberedItems(payload))
       /\ \A k \in 1..Cardinality(ItemStarts(ops)) :
              InItemOrder(Segment(ops, k), NumberedItems(payload)[k],
                          outcome = "complete" \/ k < Cardinality(ItemStarts(ops)))

\* a complete pass over two items of different races, with a result each
C21_Witness ==
    /\ npass = 1
    /\ outcome = "complete"
    /\ Len(NumberedItems(payload)) = 2
    /\ payload.schedule[1].race.race_num # payload.schedule[2].race.race_num
    /\ Cardinality(ItemStarts(ops)) = 2
    /\ LanesWritten(Segment(ops, 1)) = <<<<"1">>>>
    /\ LanesWritten(Segment(ops, 2)) = <<<<"1">>>>
    /\ Len(db.result) = 2

\* the references of the rows of a table: the columns that hold ids, and the
\* tables these ids are of
References ==
    [schedule |-> [event_id |-> "event", race_id |-> "race", category_id |-> "category"],
     result   |-> [schedule_id |-> "schedule", competitor_id |-> "competitor"]]

\* every reference of every row of the table t of the store is the id of a row
Referenced(store, t) ==
    \A i \in DOMAIN store[t] : \A c \in DOMAIN References[t] :
        /\ c \in DOMAIN store[t][i]
        /\ store[t][i][c] \in Ids(store, References[t][c])

\* C22: in every store state, those a pass cut short leaves included, the
\* event_id, race_id and category_id of every schedule row and the
\* schedule_id and competitor_id of every result row are ids of existing rows
C22_ReferencesAreOfExistingRows ==
    Referenced(db, "schedule") /\ Referenced(db, "result")

\* a pass was cut short after it had written a result row, and the pass
\* before it was cut short as well
C22_Witness ==
    /\ npass = 2
    /\ outcome = "interrupted"
    /\ Len(db.schedule) >= 1
    /\ Len(db.result) >= 1
    /\ Len(db.competitor) >= 2

\* a component that is dropped from the fingerprint: absent, null or empty
Dropped(c) == c \in {Missing, None, <<>>}

\* the lowercased "_"-join of the five components, each as a text, the
\* absent, null and empty ones dropped
JoinedComponents(event_name, schedule_item) ==
    Lower(Join(SelectSeq(<<Replace(event_name, " ", "_")>>
                         \o [i \in 1..4 |-> IF Dropped(ItemComponents(schedule_item)[i])
                                            THEN <<>>
                                            ELSE StrOf(ItemComponents(schedule_item)[i])],
                         LAMBDA c : c # <<>>),
               <<"_">>))

\* C23: generate_race_fingerprint returns the lowercased "_"-join of the
\* event name with "_" for each space, the race day, the race number, the
\* category abbreviation and the race abbreviation, each as a text, without
\* the components that are empty, absent, or present with a null value
C23_FingerprintIsJoinOfPresentComponents ==
    call.op = "generate_race_fingerprint"
    => ret = JoinedComponents(call.args[1], call.args[2])

\* the writes of race rows in a log of store operations
RaceWrites(o) == {i \in DOMAIN o : o[i].table = "race" /\ o[i].op # "select"}

\* the fingerprint a pass over the payload p looks the race of schedule_item up with
LookupFingerprint(p, schedule_item) ==
    generate_race_fingerprint(p.info.name, race_data_of(schedule_item), schedule_item)

\* the write of the race of the k-th item a pass handled
RaceWrite(o, k) == Segment(o, k)[2]

\* C24: no race row of the store carries start_armed, the data upsert_race
\* writes omits it, on an insert and on an update, and every race row written
\* carries the fingerprint its lookup was made with
C24_RaceRowsOmitArmedAndCarryFingerprint ==
    /\ \A i \in DOMAIN db.race : "start_armed" \notin DOMAIN db.race[i]
    /\ \A i \in RaceWrites(ops) : "start_armed" \notin DOMAIN ops[i].data
    /\ (npass > 0 /\ outcome # "early")
       => \A k \in 1..Cardinality(ItemStarts(ops)) :
              /\ Get(RaceWrite(ops, k).data, "fingerprint")
                     = LookupFingerprint(payload, NumberedItems(payload)[k])
              /\ Row(db, "race", RaceWrite(ops, k).id).fingerprint
                     = LookupFingerprint(payload, NumberedItems(payload)[k])

\* a pass over a race with the armed flag has updated the race row an earlier
\* pass inserted
C24_Witness ==
    /\ npass = 2
    /\ Len(payload.schedule) = 1
    /\ "start_armed" \in DOMAIN payload.schedule[1].race
    /\ \E i \in RaceWrites(ops) : ops[i].op = "update"
    /\ Len(db.race) = 1

====
